---- MODULE Spec2Model ----
(***************************************************************************)
(* Model of the users router of the study-group backend                    *)
(* (backend/routes/users.js): POST /study-time, which keeps a user's       *)
(* running study statistics, streak and achievements, and GET /dashboard,  *)
(* which aggregates the durations of completed sessions over time windows. *)
(*                                                                         *)
(* Time is counted in ticks since the epoch; a day is TicksPerDay ticks.   *)
(* Strings are sequences of one-character strings.                         *)
(***************************************************************************)
EXTENDS Integers, Sequences, FiniteSets

\* ------------------------------------------------------------------ bounds
TicksPerDay == 2      \* resolution of the clock: ticks in one day
StartDay == 4         \* day (since the epoch) on which the run starts
MaxDays == 7          \* the clock stops this many days after the start
MaxSessions == 11     \* no call is made once sessionsCompleted reaches this
MaxConcCalls == 3     \* concurrent run: calls admitted in all
MaxConcTicks == 2     \* concurrent run: the clock stops after this many ticks
NumUpcoming == 6      \* lists run: documents in the sessions collection
RouterDays == 3       \* router run: days the clock advances
MaxMediaRequests == 3 \* page run: getUserMedia requests the page makes
MaxAuthRequests == 4  \* auth run: calls of the store's methods
MaxDisplayRequests == 2 \* page run: getDisplayMedia requests the page makes
NumWeekSessions == 2  \* week run: documents in the sessions collection
WeekSpan == 8         \* week run: days the request time ranges over
FrameTicks == 2       \* frame run: ticks the clock advances
NumSessions == 3      \* dashboard run: documents in the sessions collection
MaxTotal == 70        \* no call is made that takes totalStudyTime above this

StartTime == StartDay * TicksPerDay
MaxTime == (StartDay + MaxDays) * TicksPerDay

\* --------------------------------------------------------- program constants
FirstHourMinutes == 60
WeekStreakDays == 7
DaysPerWeek == 7
EpochWeekday == 4     \* Date.getDay() of the epoch, a Thursday
WeeklyGoal == 300
GroupsLimit == 5
SearchLimit == 10     \* GET /search: the default of the limit parameter
MinQueryLength == 2
UpcomingLimit == 5
SessionMasterCount == 10
MinDuration == 1

\* ------------------------------------------------------------------ strings
Digits == <<"0", "1", "2", "3", "4", "5", "6", "7", "8", "9">>

IsDigit(c) == \E i \in 1..10 : Digits[i] = c

DigitVal(c) == (CHOOSE i \in 1..10 : Digits[i] = c) - 1

\* String(n) of JavaScript for an integer n
RECURSIVE NatToStr(_)
NatToStr(n) ==
    IF n < 10 THEN <<Digits[n + 1]>>
    ELSE NatToStr(n \div 10) \o <<Digits[(n % 10) + 1]>>

NumToStr(n) == IF n < 0 THEN <<"-">> \o NatToStr(0 - n) ELSE NatToStr(n)

AllDigits(s) == \A i \in 1..Len(s) : IsDigit(s[i])

\* value of a non-empty string of digits
RECURSIVE DigitsToNat(_)
DigitsToNat(s) ==
    IF Len(s) = 0 THEN 0
    ELSE 10 * DigitsToNat(SubSeq(s, 1, Len(s) - 1)) + DigitVal(s[Len(s)])

HasSign(s) == Len(s) > 0 /\ s[1] \in {"+", "-"}

Unsigned(s) == IF HasSign(s) THEN Tail(s) ELSE s

\* the number JavaScript coerces a string matching [-+]?[0-9]+ to
StrToNum(s) ==
    IF Len(s) > 0 /\ s[1] = "-" THEN 0 - DigitsToNat(Tail(s))
    ELSE DigitsToNat(Unsigned(s))

\* ------------------------------------------------------------ request body
\* req.body.duration: absent, a JSON number, or a JSON string
Missing == [kind |-> "missing", num |-> 0, str |-> <<>>]
Num(n) == [kind |-> "num", num |-> n, str |-> <<>>]
Str(s) == [kind |-> "str", num |-> 0, str |-> s]

\* express-validator's toString of the field before a standard validator runs
FieldToString(v) ==
    CASE v.kind = "missing" -> <<>>
      [] v.kind = "num" -> NumToStr(v.num)
      [] v.kind = "str" -> v.str

\* validator.js isInt(str, {min}): /^[-+]?[0-9]+$/ and str >= min
IsIntMutantMinZero(s, min) ==
    /\ Len(Unsigned(s)) > 0
    /\ AllDigits(Unsigned(s))
    /\ StrToNum(s) >= min - 1

IsInt(s, min) ==
    /\ Len(Unsigned(s)) > 0
    /\ AllDigits(Unsigned(s))
    /\ StrToNum(s) >= min

\* validationResult(req).isEmpty() for body('duration').isInt({ min: 1 })
ValidationPasses(body) == IsInt(FieldToString(body.duration), MinDuration)

\* --------------------------------------------------------------- user record
UserIds == {"u1", "u2"}

Epoch == <<0>>

\* a user document as created at registration: the schema defaults
FreshUser ==
    [totalStudyTime |-> 0, sessionsCompleted |-> 0, streak |-> 0,
     achievements |-> <<>>, lastStudyDate |-> <<>>]

Includes(list, x) == \E i \in 1..Len(list) : list[i] = x

\* Number + value of JavaScript, then the cast of the schema's Number path:
\* <<n>> is the number stored, <<>> a CastError
PlusAssign(total, v) ==
    IF v.kind = "num" THEN <<total + v.num>>
    ELSE LET s == NumToStr(total) \o FieldToString(v)
         IN IF AllDigits(s) THEN <<DigitsToNat(s)>> ELSE <<>>

\* Math.floor((today - lastStudyDate) / (1000 * 60 * 60 * 24))
DiffDays(today, last) == (today - last) \div TicksPerDay

\* user.lastStudyDate || new Date(0)
LastOrEpoch(user) ==
    IF user.lastStudyDate = <<>> THEN Epoch[1] ELSE user.lastStudyDate[1]

NextStreakMutantNoReset(user, today) ==
    LET diffDays == DiffDays(today, LastOrEpoch(user))
    IN IF diffDays >= 1 THEN user.streak + 1 ELSE user.streak

\* as if an absent lastStudyDate left the streak as it was stored
NextStreakMutantAbsentKeeps(user, today) ==
    LET diffDays == DiffDays(today, LastOrEpoch(user))
    IN IF user.lastStudyDate = <<>> THEN user.streak
       ELSE IF diffDays = 1 THEN user.streak + 1
       ELSE IF diffDays > 1 THEN 1
       ELSE user.streak

NextStreak(user, today) ==
    LET diffDays == DiffDays(today, LastOrEpoch(user))
    IN IF diffDays = 1 THEN user.streak + 1
       ELSE IF diffDays > 1 THEN 1
       ELSE user.streak

\* the achievements array built by the three checks, in their order
UnlockMutantNoCheck(cond, held, id) == IF cond THEN <<id>> ELSE <<>>

Unlock(cond, held, id) == IF cond /\ ~Includes(held, id) THEN <<id>> ELSE <<>>

NewAchievementsMutantOrder(total, streak, sessions, held) ==
    Unlock(total >= FirstHourMinutes, held, "first-hour")
    \o Unlock(sessions >= SessionMasterCount, held, "session-master")
    \o Unlock(streak >= WeekStreakDays, held, "week-streak")

\* as if first-hour needed more than an hour
NewAchievementsMutantStrict(total, streak, sessions, held) ==
    Unlock(total > FirstHourMinutes, held, "first-hour")
    \o Unlock(streak >= WeekStreakDays, held, "week-streak")
    \o Unlock(sessions >= SessionMasterCount, held, "session-master")

NewAchievements(total, streak, sessions, held) ==
    Unlock(total >= FirstHourMinutes, held, "first-hour")
    \o Unlock(streak >= WeekStreakDays, held, "week-streak")
    \o Unlock(sessions >= SessionMasterCount, held, "session-master")

\* as if the threshold checks ran on the incremented streak, before the reset
UpdatedUserMutantCheckFirst(user, total, today) ==
    LET streak == NextStreak(user, today)
        sessions == user.sessionsCompleted + 1
        new == NewAchievements(total, NextStreakMutantNoReset(user, today),
                               sessions, user.achievements)
    IN [totalStudyTime |-> total, sessionsCompleted |-> sessions,
        streak |-> streak, achievements |-> user.achievements \o new,
        lastStudyDate |-> <<today>>]

\* the in-memory document after lines 137-165, for a total that was cast
UpdatedUser(user, total, today) ==
    LET streak == NextStreak(user, today)
        sessions == user.sessionsCompleted + 1
        new == NewAchievements(total, streak, sessions, user.achievements)
    IN [totalStudyTime |-> total, sessionsCompleted |-> sessions,
        streak |-> streak, achievements |-> user.achievements \o new,
        lastStudyDate |-> <<today>>]

SaveMutantPushAll(stored, loaded, doc) ==
    [doc EXCEPT !.achievements = stored.achievements \o doc.achievements]

\* as if week-streak were held only while the streak lasts
SaveMutantRevoke(stored, loaded, doc) ==
    [doc EXCEPT !.achievements =
        SelectSeq(doc.achievements,
                  LAMBDA a : a # "week-streak" \/ doc.streak >= WeekStreakDays)]

SaveMutantIncrement(stored, loaded, doc) ==
    [doc EXCEPT
        !.totalStudyTime =
            stored.totalStudyTime + (doc.totalStudyTime - loaded.totalStudyTime),
        !.sessionsCompleted =
            stored.sessionsCompleted
            + (doc.sessionsCompleted - loaded.sessionsCompleted)]

\* user.save(): the modified scalar paths are $set, the pushed array
\* elements are $push-ed onto the stored array
Save(stored, loaded, doc) ==
    [totalStudyTime |->
        IF doc.totalStudyTime # loaded.totalStudyTime
        THEN doc.totalStudyTime ELSE stored.totalStudyTime,
     sessionsCompleted |->
        IF doc.sessionsCompleted # loaded.sessionsCompleted
        THEN doc.sessionsCompleted ELSE stored.sessionsCompleted,
     streak |->
        IF doc.streak # loaded.streak THEN doc.streak ELSE stored.streak,
     lastStudyDate |->
        IF doc.lastStudyDate # loaded.lastStudyDate
        THEN doc.lastStudyDate ELSE stored.lastStudyDate,
     achievements |->
        stored.achievements
        \o SubSeq(doc.achievements, Len(loaded.achievements) + 1,
                  Len(doc.achievements))]

\* --------------------------------------------------------------------- state
VARIABLES
    db,     \* the users collection: user id -> user document
    now,    \* the clock, in ticks since the epoch
    resp,   \* the response to the request last handled
    log,    \* history: per user, how many calls reported each achievement
            \* and which thresholds have held after some successful call
    hs,     \* the POST /study-time handlers in flight, each at an await
    commits, \* history: the number of user.save() calls the store applied
    sessions, \* the study sessions collection, in its natural order
    groups, \* the groups collection, in its natural order
    profiles, \* per user, the profile paths of the user document
    page,   \* the SessionDetail page: its React state and the media streams
            \* it has acquired
    auth,   \* the auth store, the Authorization default header and the
            \* requests of the store that are in flight
    sock    \* SocketProvider: the sockets it created, its state and the
            \* values its effect last ran with

vars == <<db, now, resp, log, hs, commits, sessions, groups, profiles, page, auth, sock>>

Handlers == {"h1", "h2"}

\* the profile paths of a user document as registration leaves them; strings
\* are sequences of characters
FreshProfile(u) ==
    [username |-> <<u>>, firstName |-> <<"a", "d", "a">>, lastName |-> <<"b">>,
     bio |-> <<>>, avatar |-> <<>>, studyPreferences |-> <<>>]

\* the auth store once the module is loaded: the persisted token, if any,
\* is hydrated and checkAuth was called, which either sent GET /auth/me or
\* found no token
StartedAuth(persisted) ==
    [user |-> <<>>, token |-> persisted, isAuthenticated |-> FALSE,
     isLoading |-> persisted # <<>>, header |-> persisted,
     inflight |-> [login |-> 0, register |-> 0, profile |-> 0,
                   me |-> IF persisted = <<>> THEN 0 ELSE 1],
     started |-> IF persisted = <<>> THEN 0 ELSE 1, objects |-> 0]

\* SocketProvider after its first render with a store that is not
\* authenticated: no socket, nothing to clean up
MountedProvider ==
    [mounted |-> TRUE, sockets |-> <<>>, socket |-> <<>>, cleanup |-> <<>>,
     seenAuthenticated |-> FALSE, seenUser |-> <<>>]

\* SessionDetail after its first render and effect: both toggles on, no
\* stream yet, one getUserMedia request in flight, no screen share, a
\* cleanup that captured the localStream and the screenStream of the first
\* render
MountedPage ==
    [mounted |-> TRUE, micEnabled |-> TRUE, videoEnabled |-> TRUE,
     localStream |-> <<>>, captured |-> <<>>, pending |-> 1, requested |-> 1,
     streams |-> <<>>,
     screenStream |-> <<>>, isScreenSharing |-> FALSE, capturedScreen |-> <<>>,
     displayPending |-> 0, displayRequested |-> 0, screens |-> <<>>]

AchievementIds == {"first-hour", "week-streak", "session-master"}

\* the threshold of an achievement, on a user's statistics
ThresholdHolds(id, stats) ==
    CASE id = "first-hour" -> stats.totalStudyTime >= FirstHourMinutes
      [] id = "week-streak" -> stats.streak >= WeekStreakDays
      [] id = "session-master" -> stats.sessionsCompleted >= SessionMasterCount

NoHistory == [reported |-> [id \in AchievementIds |-> 0], everMet |-> {}]

\* the history after a successful call that stored `stats` and reported `new`
Logged(h, stats, new) ==
    [reported |-> [id \in AchievementIds |->
                      h.reported[id] + Cardinality({i \in 1..Len(new) : new[i] = id})],
     everMet |-> h.everMet \cup {id \in AchievementIds : ThresholdHolds(id, stats)}]

Bodies ==
    {Num(6), Str(<<"6">>), Str(<<"+", "6">>),
     Missing, Num(0), Str(<<"a">>)}

Faults == {"none", "load", "save"}

NoStats == FreshUser

Response(status, error, stats, new) ==
    [status |-> status, error |-> error, stats |-> stats,
     newAchievements |-> new, todayProgress |-> 0, weekProgress |-> 0,
     weeklyGoal |-> 0, data |-> <<>>]

\* res.json(dashboardData): `data` holds the JSON object sent
DashboardResponse(stats, data) ==
    [status |-> 200, error |-> "none", stats |-> stats,
     newAchievements |-> <<>>, todayProgress |-> data.todayProgress,
     weekProgress |-> data.weekProgress, weeklyGoal |-> data.weeklyGoal,
     data |-> <<data>>]

Request(caller, duration) ==
    [caller |-> caller, body |-> [duration |-> duration]]

\* a handler: where it is suspended, its request, the document findById
\* gave it, the document as it changed it, the value of `commits` when it
\* read, the response it will send once save() settles, and the response
\* it sent last
IdleHandler ==
    [pc |-> "idle", caller |-> "u1", duration |-> Missing,
     loaded |-> <<>>, doc |-> <<>>, readAt |-> 0,
     pending |-> Response(0, "none", NoStats, <<>>),
     resp |-> Response(0, "none", NoStats, <<>>)]

Init ==
    /\ db = [u \in {"u1"} |-> FreshUser]
    /\ now = StartTime
    /\ resp = Response(0, "none", NoStats, <<>>)
    /\ log = [u \in {"u1"} |-> NoHistory]
    /\ hs = [h \in Handlers |-> IdleHandler]
    /\ commits = 0
    /\ sessions = <<>>
    /\ groups = <<>>
    /\ profiles = [u \in {"u1"} |-> FreshProfile(u)]
    /\ page = MountedPage
    /\ auth = StartedAuth(<<>>)
    /\ sock = MountedProvider

\* as if the counters were written before the save that failed
StudyTimeOutcomeMutantPartialSave(r, stored, today, fault) ==
    IF ~ValidationPasses(r.body)
    THEN [resp |-> Response(400, "none", NoStats, <<>>), doc |-> <<>>]
    ELSE IF fault = "load"
    THEN [resp |-> Response(500, "StorageError", NoStats, <<>>), doc |-> <<>>]
    ELSE IF stored = <<>>
    THEN [resp |-> Response(500, "TypeError", NoStats, <<>>), doc |-> <<>>]
    ELSE LET total == PlusAssign(stored[1].totalStudyTime, r.body.duration)
         IN IF total = <<>>
            THEN [resp |-> Response(500, "ValidationError", NoStats, <<>>),
                  doc |-> <<>>]
            ELSE IF fault = "save"
            THEN [resp |-> Response(500, "StorageError", NoStats, <<>>),
                  doc |-> <<[stored[1] EXCEPT
                               !.totalStudyTime = total[1],
                               !.sessionsCompleted = @ + 1]>>]
            ELSE LET doc == UpdatedUser(stored[1], total[1], today)
                 IN [resp |-> Response(200, "none", doc,
                        SubSeq(doc.achievements,
                               Len(stored[1].achievements) + 1,
                               Len(doc.achievements))),
                     doc |-> <<doc>>]

\* the outcome of POST /study-time for a request read against the stored
\* document `stored` at time `today`: the response and the document to save
StudyTimeOutcome(r, stored, today, fault) ==
    IF ~ValidationPasses(r.body)
    THEN [resp |-> Response(400, "none", NoStats, <<>>), doc |-> <<>>]
    ELSE IF fault = "load"
    THEN [resp |-> Response(500, "StorageError", NoStats, <<>>), doc |-> <<>>]
    ELSE IF stored = <<>>
    THEN [resp |-> Response(500, "TypeError", NoStats, <<>>), doc |-> <<>>]
    ELSE LET total == PlusAssign(stored[1].totalStudyTime, r.body.duration)
         IN IF total = <<>>
            THEN [resp |-> Response(500, "ValidationError", NoStats, <<>>),
                  doc |-> <<>>]
            ELSE IF fault = "save"
            THEN [resp |-> Response(500, "StorageError", NoStats, <<>>),
                  doc |-> <<>>]
            ELSE LET doc == UpdatedUser(stored[1], total[1], today)
                 IN [resp |-> Response(200, "none", doc,
                        SubSeq(doc.achievements,
                               Len(stored[1].achievements) + 1,
                               Len(doc.achievements))),
                     doc |-> <<doc>>]

\* User.findById
FindById(id) == IF id \in DOMAIN db THEN <<db[id]>> ELSE <<>>

WithinBounds(stored, duration) ==
    stored # <<>> =>
        /\ stored[1].sessionsCompleted < MaxSessions
        /\ LET total == PlusAssign(stored[1].totalStudyTime, duration)
           IN total # <<>> => total[1] <= MaxTotal

\* as if the save were an update of every user document
StudyTimeMutantUpdateMany(caller, duration, fault) ==
    LET r == Request(caller, duration)
        stored == FindById(caller)
        out == StudyTimeOutcome(r, stored, now, fault)
    IN /\ resp' = out.resp
       /\ WithinBounds(stored, duration)
       /\ db' = IF out.doc = <<>> THEN db
                ELSE [u \in DOMAIN db |-> Save(db[u], stored[1], out.doc[1])]
       /\ log' = IF out.doc = <<>> THEN log
                 ELSE [log EXCEPT ![caller] =
                          Logged(log[caller], db'[caller], out.resp.newAchievements)]
       /\ commits' = IF out.doc = <<>> THEN commits ELSE commits + 1
       /\ UNCHANGED <<now, hs, sessions, groups, profiles, page, auth, sock>>

\* POST /study-time, handled with no other request for the user in flight
StudyTime(caller, duration, fault) ==
    LET r == Request(caller, duration)
        stored == FindById(caller)
        out == StudyTimeOutcome(r, stored, now, fault)
    IN /\ resp' = out.resp
       /\ WithinBounds(stored, duration)
       /\ db' = IF out.doc = <<>> THEN db
                ELSE [db EXCEPT ![caller] = Save(db[caller], stored[1], out.doc[1])]
       /\ log' = IF out.doc = <<>> THEN log
                 ELSE [log EXCEPT ![caller] =
                          Logged(log[caller], db'[caller], out.resp.newAchievements)]
       /\ commits' = IF out.doc = <<>> THEN commits ELSE commits + 1
       /\ UNCHANGED <<now, hs, sessions, groups, profiles, page, auth, sock>>

\* the clock advances, up to a limit
TickUntil(limit) ==
    /\ now < limit
    /\ now' = now + 1
    /\ UNCHANGED <<db, resp, log, hs, commits, sessions, groups, profiles, page, auth, sock>>

Tick == TickUntil(MaxTime)

Next ==
    \/ \E caller \in UserIds, duration \in Bodies, fault \in Faults :
          StudyTime(caller, duration, fault)
    \/ Tick

Spec == Init /\ [][Next]_vars

\* ------------------------------------------- concurrent POST /study-time
ConcBodies == {Num(6), Num(30), Missing}

InFlight == Cardinality({h \in Handlers : hs[h].pc # "idle"})

\* the request arrives: validation runs, then findById is awaited
Receive(h, caller, duration) ==
    /\ hs[h].pc = "idle"
    /\ commits + InFlight < MaxConcCalls
    /\ hs' = [hs EXCEPT ![h] =
          IF ~ValidationPasses([duration |-> duration])
          THEN [IdleHandler EXCEPT
                   !.resp = Response(400, "none", NoStats, <<>>)]
          ELSE [IdleHandler EXCEPT
                   !.pc = "find", !.caller = caller, !.duration = duration]]
    /\ UNCHANGED <<db, now, resp, log, commits, sessions, groups, profiles, page, auth, sock>>

\* findById settles: on a document, lines 137-165 run and save() is awaited
FindSettles(h, fault) ==
    /\ hs[h].pc = "find"
    /\ LET stored == FindById(hs[h].caller)
           out == StudyTimeOutcome(Request(hs[h].caller, hs[h].duration),
                                   stored, now, fault)
       IN hs' = [hs EXCEPT ![h] =
             IF out.doc = <<>>
             THEN [@ EXCEPT !.pc = "idle", !.resp = out.resp]
             ELSE [@ EXCEPT !.pc = "save", !.loaded = stored,
                            !.doc = out.doc, !.readAt = commits,
                            !.pending = out.resp]]
    /\ UNCHANGED <<db, now, resp, log, commits, sessions, groups, profiles, page, auth, sock>>

\* save() settles: the update is applied to the stored document and the
\* response is sent
SaveSettles(h, fault) ==
    /\ hs[h].pc = "save"
    /\ IF fault = "save"
       THEN /\ hs' = [hs EXCEPT ![h] =
                  [@ EXCEPT !.pc = "idle",
                            !.resp = Response(500, "StorageError", NoStats, <<>>)]]
            /\ UNCHANGED <<db, log, commits>>
       ELSE /\ db' = [db EXCEPT ![hs[h].caller] =
                  Save(db[hs[h].caller], hs[h].loaded[1], hs[h].doc[1])]
            /\ log' = [log EXCEPT ![hs[h].caller] =
                  Logged(@, db'[hs[h].caller], hs[h].pending.newAchievements)]
            /\ commits' = commits + 1
            /\ hs' = [hs EXCEPT ![h] =
                  [@ EXCEPT !.pc = "idle", !.resp = hs[h].pending]]
    /\ UNCHANGED <<now, resp, sessions, groups, profiles, page, auth, sock>>

TickConc ==
    /\ now < StartTime + MaxConcTicks
    /\ now' = now + 1
    /\ UNCHANGED <<db, resp, log, hs, commits, sessions, groups, profiles, page, auth, sock>>

NextConc ==
    \/ \E h \in Handlers, caller \in UserIds, duration \in ConcBodies :
          Receive(h, caller, duration)
    \/ \E h \in Handlers, fault \in {"none", "load"} : FindSettles(h, fault)
    \/ \E h \in Handlers, fault \in {"none", "save"} : SaveSettles(h, fault)
    \/ TickConc

SpecConc == Init /\ [][NextConc]_vars

\* ---------------------------------------------------------- GET /dashboard
\* today.setHours(0, 0, 0, 0)
Midnight(t) == (t \div TicksPerDay) * TicksPerDay

\* Date.getDay(): 0 is Sunday
GetDay(t) == ((t \div TicksPerDay) + EpochWeekday) % DaysPerWeek

\* as if the week were counted from Monday by subtracting getDay() - 1
WeekStartMutantMonday(t) == Midnight(t) - (GetDay(t) - 1) * TicksPerDay

\* weekStart.setDate(today.getDate() - today.getDay())
WeekStart(t) == Midnight(t) - GetDay(t) * TicksPerDay

\* as if the upper bound of the window were $lte
CompletedInMutantClosed(coll, id, lo, hi) ==
    SelectSeq(coll, LAMBDA s :
        /\ \E i \in 1..Len(s.participants) : s.participants[i].user = id
        /\ s.actualEnd # <<>>
        /\ s.actualEnd[1] >= lo
        /\ s.actualEnd[1] <= hi
        /\ s.status = "completed")

\* { 'participants.user': id, actualEnd: { $gte: lo, $lt: hi },
\*   status: 'completed' }: the matching documents, in collection order
RECURSIVE CompletedIn(_, _, _, _)
CompletedIn(coll, id, lo, hi) ==
    IF coll = <<>> THEN <<>>
    ELSE LET s == Head(coll)
             match ==
                /\ \E i \in 1..Len(s.participants) : s.participants[i].user = id
                /\ s.actualEnd # <<>>
                /\ s.actualEnd[1] >= lo
                /\ s.actualEnd[1] < hi
                /\ s.status = "completed"
         IN (IF match THEN <<s>> ELSE <<>>) \o CompletedIn(Tail(coll), id, lo, hi)

\* session.participants.find(p => p.user.toString() === id): <<p>> or <<>>
FindParticipantMutantFirst(participants, id) ==
    IF participants = <<>> THEN <<>> ELSE <<Head(participants)>>

RECURSIVE FindParticipant(_, _)
FindParticipant(participants, id) ==
    IF participants = <<>> THEN <<>>
    ELSE IF Head(participants).user = id THEN <<Head(participants)>>
    ELSE FindParticipant(Tail(participants), id)

\* participant?.duration || 0
DurationOrZero(found) ==
    IF found = <<>> \/ found[1].duration = <<>> THEN 0 ELSE found[1].duration[1]

\* matched.reduce((total, session) => total + ..., 0)
RECURSIVE Progress(_, _)
Progress(matched, id) ==
    IF matched = <<>> THEN 0
    ELSE Progress(SubSeq(matched, 1, Len(matched) - 1), id)
         + DurationOrZero(FindParticipant(matched[Len(matched)].participants, id))

\* the indices of a collection that satisfy a test, in collection order
RECURSIVE Matching(_, _)
Matching(n, keep) ==
    IF n = 0 THEN <<>>
    ELSE Matching(n - 1, keep) \o (IF n \in keep THEN <<n>> ELSE <<>>)

\* .sort(): the indices ordered by ascending key, ties in collection order
RECURSIVE Insert(_, _, _)
Insert(sorted, i, key) ==
    IF sorted = <<>> THEN <<i>>
    ELSE IF key[Head(sorted)] <= key[i]
         THEN <<Head(sorted)>> \o Insert(Tail(sorted), i, key)
         ELSE <<i>> \o sorted

RECURSIVE SortBy(_, _)
SortBy(ids, key) ==
    IF ids = <<>> THEN <<>>
    ELSE Insert(SortBy(SubSeq(ids, 1, Len(ids) - 1), key), ids[Len(ids)], key)

\* .limit(n)
Limit(ids, n) == SubSeq(ids, 1, IF Len(ids) < n THEN Len(ids) ELSE n)

\* Group.find({ 'members.user': id, isActive: true })
\*   .sort({ updatedAt: -1 }).limit(5)
RecentGroups(id) ==
    Limit(SortBy(Matching(Len(groups),
                          {i \in 1..Len(groups) :
                              id \in groups[i].members /\ groups[i].isActive}),
                 [i \in 1..Len(groups) |-> 0 - groups[i].updatedAt]),
          GroupsLimit)

\* StudySession.find({ $or: [{ host: id }, { 'participants.user': id }],
\*   scheduledStart: { $gte: new Date() },
\*   status: { $in: ['scheduled', 'active'] } })
\*   .sort({ scheduledStart: 1 }).limit(5)
UpcomingMatches(id) ==
    {i \in 1..Len(sessions) :
        /\ \/ sessions[i].host = id
           \/ \E k \in 1..Len(sessions[i].participants) :
                 sessions[i].participants[k].user = id
        /\ sessions[i].scheduledStart >= now
        /\ sessions[i].status \in {"scheduled", "active"}}

UpcomingSessionsMutantNoLimit(id) ==
    SortBy(Matching(Len(sessions), UpcomingMatches(id)),
           [i \in 1..Len(sessions) |-> sessions[i].scheduledStart])

UpcomingSessions(id) ==
    Limit(SortBy(Matching(Len(sessions), UpcomingMatches(id)),
                 [i \in 1..Len(sessions) |-> sessions[i].scheduledStart]),
          UpcomingLimit)

\* x || fallback for an optional value
OrElse(opt, fallback) == IF opt = <<>> THEN fallback ELSE opt[1]

\* formattedRecentGroups
FormatGroups(ids) ==
    [k \in 1..Len(ids) |->
        [id |-> ids[k], name |-> groups[ids[k]].name,
         subject |-> groups[ids[k]].subject,
         memberCount |-> OrElse(groups[ids[k]].memberCount, 0),
         lastActivity |-> groups[ids[k]].updatedAt]]

\* `${firstName || ''} ${lastName || ''}`.trim(), as the list of its words
HostName(host) ==
    IF host = <<>> THEN <<>>
    ELSE SelectSeq(<<host[1].firstName, host[1].lastName>>, LAMBDA w : w # "")

\* formattedUpcomingSessions without its last key
FormatSessionsMutantNoHost(ids) ==
    [k \in 1..Len(ids) |->
        [id |-> ids[k], title |-> sessions[ids[k]].title,
         groupName |-> OrElse(sessions[ids[k]].group, "Unknown Group"),
         time |-> sessions[ids[k]].scheduledStart]]

\* formattedUpcomingSessions
FormatSessions(ids) ==
    [k \in 1..Len(ids) |->
        [id |-> ids[k], title |-> sessions[ids[k]].title,
         groupName |-> OrElse(sessions[ids[k]].group, "Unknown Group"),
         time |-> sessions[ids[k]].scheduledStart,
         host |-> HostName(sessions[ids[k]].hostDoc)]]

\* dashboardData
DashboardData(user, caller) ==
    LET today == Midnight(now)
        tomorrow == today + TicksPerDay
        weekStart == WeekStart(now)
        weekEnd == weekStart + DaysPerWeek * TicksPerDay
    IN [recentGroups |-> FormatGroups(RecentGroups(caller)),
        upcomingSessions |-> FormatSessions(UpcomingSessions(caller)),
        stats |-> [totalStudyTime |-> user.totalStudyTime,
                   sessionsCompleted |-> user.sessionsCompleted,
                   currentStreak |-> user.streak,
                   achievements |-> user.achievements],
        todayProgress |->
            Progress(CompletedIn(sessions, caller, today, tomorrow), caller),
        weekProgress |->
            Progress(CompletedIn(sessions, caller, weekStart, weekEnd), caller),
        weeklyGoal |-> WeeklyGoal]

\* the sub-queries of the handler, in their order
DashQueries == <<"user", "groups", "upcoming", "today", "week">>

DashFaults == {"none"} \cup {DashQueries[i] : i \in 1..Len(DashQueries)}

\* the response of GET /dashboard when the sub-query `fault` rejects
DashboardOutcomeMutantDegraded(caller, fault) ==
    LET user == FindById(caller)
    IN IF fault = "user"
       THEN Response(500, "StorageError", NoStats, <<>>)
       ELSE IF user = <<>>
       THEN Response(500, "TypeError", NoStats, <<>>)
       ELSE IF fault = "groups"
       THEN DashboardResponse(user[1],
               [DashboardData(user[1], caller) EXCEPT !.recentGroups = <<>>])
       ELSE IF fault # "none"
       THEN Response(500, "StorageError", NoStats, <<>>)
       ELSE DashboardResponse(user[1], DashboardData(user[1], caller))

\* as the handler would answer if the reduce calls had no initial value
DashboardOutcomeMutantEmptyThrows(caller, fault) ==
    LET user == FindById(caller)
    IN IF fault # "none"
       THEN Response(500, "StorageError", NoStats, <<>>)
       ELSE IF user = <<>>
       THEN Response(500, "TypeError", NoStats, <<>>)
       ELSE IF CompletedIn(sessions, caller, Midnight(now),
                           Midnight(now) + TicksPerDay) = <<>>
       THEN Response(500, "TypeError", NoStats, <<>>)
       ELSE DashboardResponse(user[1], DashboardData(user[1], caller))

DashboardOutcome(caller, fault) ==
    LET user == FindById(caller)
    IN IF fault # "none"
       THEN Response(500, "StorageError", NoStats, <<>>)
       ELSE IF user = <<>>
       THEN Response(500, "TypeError", NoStats, <<>>)
       ELSE DashboardResponse(user[1], DashboardData(user[1], caller))

\* GET /dashboard: read-only
Dashboard(caller, fault) ==
    /\ resp' = DashboardOutcome(caller, fault)
    /\ UNCHANGED <<db, now, log, hs, commits, sessions, groups, profiles, page, auth, sock>>

\* the documents the sessions collection is drawn from; each user has at
\* most one entry in a session's participants
Entry(user, duration) == [user |-> user, duration |-> duration]

\* a session that is not upcoming: it was scheduled at the epoch
SessionDoc(status, actualEnd, participants) ==
    [status |-> status, actualEnd |-> actualEnd, participants |-> participants,
     title |-> "past", scheduledStart |-> Epoch[1], host |-> "u2",
     hostDoc |-> <<>>, group |-> <<>>]

PersonName(first, last) == [firstName |-> first, lastName |-> last]

\* a session with a schedule: host and group are as populated
Scheduled(status, start, host, participants, title, group) ==
    [status |-> status, actualEnd |-> <<>>, participants |-> participants,
     title |-> title, scheduledStart |-> start, host |-> host,
     hostDoc |-> IF host = "u1" THEN <<PersonName("Ada", "Lovelace")>>
                 ELSE <<PersonName("Bob", "")>>,
     group |-> group]

GroupDoc(name, members, isActive, updatedAt, memberCount) ==
    [name |-> name, subject |-> "maths", members |-> members,
     isActive |-> isActive, updatedAt |-> updatedAt, memberCount |-> memberCount,
     owner |-> IF "u2" \in members THEN "u2" ELSE "u1"]

GroupCollections ==
    {<<>>,
     <<GroupDoc("algebra", {"u1", "u2"}, TRUE, StartTime - 1, <<2>>),
       GroupDoc("logic", {"u1"}, TRUE, StartTime, <<>>),
       GroupDoc("old", {"u1"}, FALSE, StartTime, <<1>>)>>}

SessionDocs ==
    {SessionDoc("completed", <<StartTime>>, <<Entry("u1", <<20>>)>>),
     SessionDoc("completed", <<StartTime + TicksPerDay - 1>>,
                <<Entry("u2", <<45>>), Entry("u1", <<15>>)>>),
     SessionDoc("completed", <<StartTime - 1>>, <<Entry("u1", <<30>>)>>),
     SessionDoc("completed", <<StartTime>>, <<Entry("u2", <<45>>)>>),
     SessionDoc("active", <<>>, <<Entry("u1", <<20>>)>>),
     SessionDoc("cancelled", <<StartTime>>, <<Entry("u1", <<20>>)>>),
     SessionDoc("completed", <<StartTime>>, <<Entry("u1", <<>>)>>),
     SessionDoc("completed", <<StartTime - DaysPerWeek * TicksPerDay>>,
                <<Entry("u1", <<30>>)>>),
     SessionDoc("completed", <<StartTime + TicksPerDay>>, <<Entry("u1", <<15>>)>>)}

InitDash ==
    /\ db = [u \in {"u1"} |-> FreshUser]
    /\ now \in (StartTime - TicksPerDay)..(StartTime + 2 * TicksPerDay - 1)
    /\ resp = Response(0, "none", NoStats, <<>>)
    /\ log = [u \in {"u1"} |-> NoHistory]
    /\ hs = [h \in Handlers |-> IdleHandler]
    /\ commits = 0
    /\ sessions \in [1..NumSessions -> SessionDocs]
    /\ groups \in GroupCollections
    /\ profiles = [u \in DOMAIN db |-> FreshProfile(u)]
    /\ page = MountedPage
    /\ auth = StartedAuth(<<>>)
    /\ sock = MountedProvider

NextDash == \E caller \in UserIds, fault \in DashFaults : Dashboard(caller, fault)

SpecDash == InitDash /\ [][NextDash]_vars

\* ------------------------------------- GET /dashboard: the two lists
\* the documents a collection with scheduled sessions is drawn from
UpcomingDocs ==
    {Scheduled("scheduled", StartTime + 1, "u1", <<>>, "t1", <<"algebra">>),
     Scheduled("active", StartTime + 2, "u2", <<Entry("u1", <<>>)>>, "t2", <<>>),
     Scheduled("scheduled", StartTime + 3, "u2", <<Entry("u2", <<>>)>>, "t3",
               <<"logic">>),
     [Scheduled("completed", StartTime, "u1", <<Entry("u1", <<20>>)>>, "t4",
                <<"algebra">>) EXCEPT !.actualEnd = <<StartTime>>]}

InitLists ==
    /\ db = [u \in UserIds |-> FreshUser]
    /\ now \in StartTime..(StartTime + 2)
    /\ resp = Response(0, "none", NoStats, <<>>)
    /\ log = [u \in UserIds |-> NoHistory]
    /\ hs = [h \in Handlers |-> IdleHandler]
    /\ commits = 0
    /\ sessions \in [1..NumUpcoming -> UpcomingDocs]
    /\ groups \in GroupCollections
    /\ profiles = [u \in DOMAIN db |-> FreshProfile(u)]
    /\ page = MountedPage
    /\ auth = StartedAuth(<<>>)
    /\ sock = MountedProvider

SpecLists == InitLists /\ [][NextDash]_vars

\* ------------------------------ GET /dashboard: the edges of the windows
\* midnight of the Sunday on or before the start day
WeekOrigin ==
    (StartDay - ((StartDay + EpochWeekday) % DaysPerWeek)) * TicksPerDay

\* completed sessions of u1 that ended on the edges of a day and of a week;
\* the durations are distinct powers of two, so a sum names its sessions
WeekDocs ==
    {SessionDoc("completed", <<WeekOrigin - 1>>, <<Entry("u1", <<1>>)>>),
     SessionDoc("completed", <<WeekOrigin>>, <<Entry("u1", <<2>>)>>),
     SessionDoc("completed", <<WeekOrigin + TicksPerDay>>, <<Entry("u1", <<4>>)>>),
     SessionDoc("completed", <<WeekOrigin + 2 * TicksPerDay - 1>>,
                <<Entry("u1", <<8>>)>>),
     SessionDoc("completed", <<WeekOrigin + DaysPerWeek * TicksPerDay - 1>>,
                <<Entry("u1", <<16>>)>>),
     SessionDoc("completed", <<WeekOrigin + DaysPerWeek * TicksPerDay>>,
                <<Entry("u2", <<64>>), Entry("u1", <<32>>)>>)}

\* the request is made at any instant of a week and of the day after it
InitWeek ==
    /\ db = [u \in {"u1"} |-> FreshUser]
    /\ now \in WeekOrigin..(WeekOrigin + WeekSpan * TicksPerDay - 1)
    /\ resp = Response(0, "none", NoStats, <<>>)
    /\ log = [u \in {"u1"} |-> NoHistory]
    /\ hs = [h \in Handlers |-> IdleHandler]
    /\ commits = 0
    /\ sessions \in [1..NumWeekSessions -> WeekDocs]
    /\ groups = <<>>
    /\ profiles = [u \in DOMAIN db |-> FreshProfile(u)]
    /\ page = MountedPage
    /\ auth = StartedAuth(<<>>)
    /\ sock = MountedProvider

SpecWeek == InitWeek /\ [][NextDash]_vars

\* ------------------------- POST /study-time beside GET /dashboard: two users
FrameDurations == {Num(30), Missing}

\* both users took part in a session that ended today
FrameSessions ==
    <<SessionDoc("completed", <<StartTime>>,
                 <<Entry("u2", <<45>>), Entry("u1", <<15>>)>>),
      SessionDoc("completed", <<StartTime - 1>>, <<Entry("u1", <<30>>)>>)>>

InitFrame ==
    /\ db = [u \in UserIds |-> FreshUser]
    /\ now = StartTime
    /\ resp = Response(0, "none", NoStats, <<>>)
    /\ log = [u \in UserIds |-> NoHistory]
    /\ hs = [h \in Handlers |-> IdleHandler]
    /\ commits = 0
    /\ sessions = FrameSessions
    /\ groups = <<GroupDoc("algebra", {"u1", "u2"}, TRUE, StartTime - 1, <<2>>)>>
    /\ profiles = [u \in DOMAIN db |-> FreshProfile(u)]
    /\ page = MountedPage
    /\ auth = StartedAuth(<<>>)
    /\ sock = MountedProvider

NextFrame ==
    \/ \E caller \in UserIds, duration \in FrameDurations, fault \in Faults :
          StudyTime(caller, duration, fault)
    \/ \E caller \in UserIds : Dashboard(caller, "none")
    \/ TickUntil(StartTime + FrameTicks)

SpecFrame == InitFrame /\ [][NextFrame]_vars

\* ------------------------------------------------------- PUT /profile
\* a JSON value of a request body: a string, as its characters, or an object
JStr(chars) == [kind |-> "string", chars |-> chars]
JObj(label) == [kind |-> "object", chars |-> label]

Whitespace == {" ", "\t", "\n"}

\* trim(): strip the whitespace at both ends
RECURSIVE TrimLeft(_)
TrimLeft(chars) ==
    IF chars # <<>> /\ Head(chars) \in Whitespace THEN TrimLeft(Tail(chars))
    ELSE chars

RECURSIVE TrimRight(_)
TrimRight(chars) ==
    IF chars # <<>> /\ chars[Len(chars)] \in Whitespace
    THEN TrimRight(SubSeq(chars, 1, Len(chars) - 1))
    ELSE chars

Trim(chars) == TrimRight(TrimLeft(chars))

\* escape(): replace the HTML-sensitive characters by entities (the
\* backquote, the eighth of them, is not a character a string here can hold)
EscapeChar(c) ==
    CASE c = "&" -> <<"&", "a", "m", "p", ";">>
      [] c = "<" -> <<"&", "l", "t", ";">>
      [] c = ">" -> <<"&", "g", "t", ";">>
      [] c = "\"" -> <<"&", "q", "u", "o", "t", ";">>
      [] c = "'" -> <<"&", "#", "x", "2", "7", ";">>
      [] c = "/" -> <<"&", "#", "x", "2", "F", ";">>
      [] c = "\\" -> <<"&", "#", "x", "5", "C", ";">>
      [] OTHER -> <<c>>

RECURSIVE Escape(_)
Escape(chars) ==
    IF chars = <<>> THEN <<>> ELSE EscapeChar(Head(chars)) \o Escape(Tail(chars))

\* String(value) of an object, which a sanitizer works on
ObjectString ==
    <<"[", "o", "b", "j", "e", "c", "t", " ", "O", "b", "j", "e", "c", "t", "]">>

\* .trim().escape() on a field of the body
Sanitized(v) ==
    JStr(Escape(Trim(IF v.kind = "string" THEN v.chars ELSE ObjectString)))

\* .optional().notEmpty() and .optional().isObject()
ProfileValidationPasses(updates) ==
    /\ \A k \in {"firstName", "lastName"} \cap DOMAIN updates :
          updates[k].kind = "object" \/ updates[k].chars # <<>>
    /\ "studyPreferences" \in DOMAIN updates =>
          updates["studyPreferences"].kind = "object"

\* req.body after the sanitizers of the validation chain ran
SanitizedBody(updates) ==
    [k \in DOMAIN updates |->
        IF k \in {"firstName", "lastName", "bio"} THEN Sanitized(updates[k])
        ELSE updates[k]]

AllowedUpdates == {"firstName", "lastName", "bio", "avatar", "studyPreferences"}

\* filteredUpdates: the keys of the body that are in allowedUpdates
FilteredUpdatesMutantAllKeys(updates) == updates

FilteredUpdates(updates) ==
    [k \in DOMAIN updates \cap AllowedUpdates |-> updates[k]]

\* the paths of the user schema
StatsPaths == {"totalStudyTime", "sessionsCompleted", "streak", "achievements"}
StringPaths == {"username", "firstName", "lastName", "bio", "avatar"}

\* a string path of the schema cannot take an object
CastFails(update) ==
    \E k \in DOMAIN update \cap StringPaths : update[k].kind = "object"

\* findByIdAndUpdate(id, update): $set of every key of the update that is a
\* path of the schema; the statistics and the profile of the document after
SetPaths(user, profile, update) ==
    [user |->
        [f \in DOMAIN user |->
            IF f = "lastStudyDate"
            THEN IF "lastStudyDate" \in DOMAIN update
                 THEN update["lastStudyDate"] ELSE user[f]
            ELSE IF "studyStats" \in DOMAIN update
                 THEN update["studyStats"][f] ELSE user[f]],
     profile |->
        [f \in DOMAIN profile |->
            IF f \in DOMAIN update THEN update[f].chars ELSE profile[f]]]

\* the response of a route that sends a user document
UserResponse(status, user, profile) ==
    [Response(status, "none", user, <<>>) EXCEPT !.data = <<profile>>]

\* the outcome of PUT /profile: the response and the document to store
UpdateProfileOutcome(caller, updates, fault) ==
    LET update == FilteredUpdates(SanitizedBody(updates))
    IN IF ~ProfileValidationPasses(updates)
       THEN [resp |-> Response(400, "none", NoStats, <<>>), doc |-> <<>>]
       ELSE IF fault # "none" \/ CastFails(update)
       THEN [resp |-> Response(500, IF fault # "none" THEN "StorageError"
                                    ELSE "CastError", NoStats, <<>>),
             doc |-> <<>>]
       ELSE IF caller \notin DOMAIN db
       THEN [resp |-> Response(200, "none", NoStats, <<>>), doc |-> <<>>]
       ELSE LET doc == SetPaths(db[caller], profiles[caller], update)
            IN [resp |-> UserResponse(200, doc.user, doc.profile),
                doc |-> <<doc>>]

\* PUT /profile
UpdateProfile(caller, updates, fault) ==
    LET out == UpdateProfileOutcome(caller, updates, fault)
    IN /\ resp' = out.resp
       /\ db' = IF out.doc = <<>> THEN db
                ELSE [db EXCEPT ![caller] = out.doc[1].user]
       /\ profiles' = IF out.doc = <<>> THEN profiles
                      ELSE [profiles EXCEPT ![caller] = out.doc[1].profile]
       /\ UNCHANGED <<now, log, hs, commits, sessions, groups, page, auth, sock>>

\* the request bodies PUT /profile is tried with
ProfileBodies ==
    {[firstName |-> JStr(<<" ", "e", "<">>)],
     [bio |-> JStr(<<"h", "i">>), lastStudyDate |-> Epoch],
     [studyPreferences |-> JObj(<<"p">>),
      studyStats |-> [totalStudyTime |-> 60, sessionsCompleted |-> 10,
                      streak |-> 7, achievements |-> <<>>]],
     [firstName |-> JStr(<<>>)],
     [studyPreferences |-> JStr(<<"x">>)],
     [avatar |-> JObj(<<"o">>), role |-> JStr(<<"r">>)]}

\* ------------------------------------------------ the GET routes
\* Group.countDocuments(filter)
CountGroups(matches) == Cardinality({i \in 1..Len(groups) : matches[i]})

\* GET /stats: the statistics and the two group counts; createdAt is not
\* among the selected paths, so joinDate is undefined and not serialised
GetStatsOutcome(caller, fault) ==
    LET user == FindById(caller)
    IN IF fault # "none"
       THEN Response(500, "StorageError", NoStats, <<>>)
       ELSE IF user = <<>>
       THEN Response(500, "TypeError", NoStats, <<>>)
       ELSE [Response(200, "none", user[1], <<>>) EXCEPT !.data =
               <<[totalStudyTime |-> user[1].totalStudyTime,
                  sessionsCompleted |-> user[1].sessionsCompleted,
                  streak |-> user[1].streak,
                  achievements |-> user[1].achievements,
                  totalGroups |->
                     CountGroups([i \in 1..Len(groups) |->
                        caller \in groups[i].members /\ groups[i].isActive]),
                  ownedGroups |->
                     CountGroups([i \in 1..Len(groups) |->
                        groups[i].owner = caller /\ groups[i].isActive])]>>]

GetStats(caller, fault) ==
    /\ resp' = GetStatsOutcome(caller, fault)
    /\ UNCHANGED <<db, now, log, hs, commits, sessions, groups, profiles, page, auth, sock>>

\* the ids GET /profile/:userId is tried with; "x" is not an ObjectId
ProfileIds == UserIds \cup {"x"}

\* GET /profile/:userId
GetProfileOutcome(userId, fault) ==
    IF fault # "none"
    THEN Response(500, "StorageError", NoStats, <<>>)
    ELSE IF userId \notin UserIds
    THEN Response(500, "CastError", NoStats, <<>>)
    ELSE IF FindById(userId) = <<>>
    THEN Response(404, "none", NoStats, <<>>)
    ELSE UserResponse(200, db[userId], profiles[userId])

GetProfile(userId, fault) ==
    /\ resp' = GetProfileOutcome(userId, fault)
    /\ UNCHANGED <<db, now, log, hs, commits, sessions, groups, profiles, page, auth, sock>>

Uppers == <<"A", "B", "C", "D", "E">>
Lowers == <<"a", "b", "c", "d", "e">>

\* $options: 'i': the letters of this model's strings are A..E and a..e
LowerChar(c) ==
    IF \E i \in 1..Len(Uppers) : Uppers[i] = c
    THEN Lowers[CHOOSE i \in 1..Len(Uppers) : Uppers[i] = c]
    ELSE c

\* { $regex: q, $options: 'i' } for a q that has no regex operator
RegexMatches(text, q) ==
    \E i \in 1..(Len(text) - Len(q) + 1) :
        \A k \in 1..Len(q) : LowerChar(text[i + k - 1]) = LowerChar(q[k])

\* the users collection in its natural order
UserOrder == <<"u1", "u2">>

\* GET /search with the default limit; q is absent or a string
SearchOutcome(q, fault) ==
    IF q = <<>> \/ Len(Trim(q[1])) < MinQueryLength
    THEN Response(400, "none", NoStats, <<>>)
    ELSE IF fault # "none"
    THEN Response(500, "StorageError", NoStats, <<>>)
    ELSE LET found ==
                SelectSeq(UserOrder,
                          LAMBDA u : /\ u \in DOMAIN db
                                     /\ \E f \in {"username", "firstName", "lastName"} :
                                           RegexMatches(profiles[u][f], q[1]))
         IN [Response(200, "none", NoStats, <<>>) EXCEPT !.data =
               <<[users |-> [k \in 1..Len(Limit(found, SearchLimit)) |->
                               profiles[found[k]]]]>>]

Search(q, fault) ==
    /\ resp' = SearchOutcome(q, fault)
    /\ UNCHANGED <<db, now, log, hs, commits, sessions, groups, profiles, page, auth, sock>>

\* the query strings GET /search is tried with
Queries ==
    {<<>>, <<<<" ", "a", " ">>>>, <<<<"A", "D">>>>, <<<<"e", "&">>>>}

\* ------------------------------------------ the users router as a whole
\* a user on the sixth day of a streak, after six recordings of six minutes
StreakUser ==
    [totalStudyTime |-> 36, sessionsCompleted |-> 6, streak |-> 6,
     achievements |-> <<>>, lastStudyDate |-> <<StartTime - TicksPerDay>>]

RouterDurations == {Num(6), Missing}

RouterFaults == {"none", "fail"}

InitRouter ==
    /\ db = [u \in {"u1"} |-> StreakUser]
    /\ now = StartTime
    /\ resp = Response(0, "none", NoStats, <<>>)
    /\ log = [u \in {"u1"} |-> NoHistory]
    /\ hs = [h \in Handlers |-> IdleHandler]
    /\ commits = 0
    /\ sessions = <<SessionDoc("completed", <<StartTime>>, <<Entry("u1", <<20>>)>>),
                    Scheduled("scheduled", StartTime + 1, "u1", <<>>, "t1",
                              <<"algebra">>)>>
    /\ groups \in GroupCollections \ {<<>>}
    /\ profiles = [u \in {"u1"} |-> FreshProfile(u)]
    /\ page = MountedPage
    /\ auth = StartedAuth(<<>>)
    /\ sock = MountedProvider

NextRouter ==
    \/ \E caller \in UserIds, duration \in RouterDurations, fault \in Faults :
          StudyTime(caller, duration, fault)
    \/ \E caller \in UserIds, updates \in ProfileBodies, fault \in RouterFaults :
          UpdateProfile(caller, updates, fault)
    \/ \E caller \in UserIds, fault \in RouterFaults : GetStats(caller, fault)
    \/ \E userId \in ProfileIds, fault \in RouterFaults : GetProfile(userId, fault)
    \/ \E q \in Queries, fault \in RouterFaults : Search(q, fault)
    \/ \E caller \in UserIds, fault \in {"none", "groups"} :
          Dashboard(caller, fault)
    \/ TickUntil(StartTime + RouterDays * TicksPerDay)

SpecRouter == InitRouter /\ [][NextRouter]_vars

\* ------------------------------------------- SessionDetail: local media
\* a stream as getUserMedia({ video: true, audio: true }) resolves it: one
\* audio and one video track, both enabled and live
NewStream == [audioEnabled |-> TRUE, videoEnabled |-> TRUE, live |-> TRUE]

\* stream.getTracks().forEach(track => track.stop()) for an optional stream
StopTracks(streams, held) ==
    IF held = <<>> THEN streams
    ELSE [streams EXCEPT ![held[1]].live = FALSE]

PageFrame ==
    UNCHANGED <<db, now, resp, log, hs, commits, sessions, groups, profiles, auth,
                sock>>

\* initializeMedia, after the await: the request resolved with a stream;
\* React drops the state update of a component that is no longer mounted
MediaGranted ==
    /\ page.pending > 0
    /\ page' = [page EXCEPT
                   !.pending = @ - 1,
                   !.streams = Append(@, NewStream),
                   !.localStream = IF page.mounted
                                   THEN <<Len(page.streams) + 1>> ELSE @]
    /\ PageFrame

\* initializeMedia, the catch block: the request was rejected
MediaDenied ==
    /\ page.pending > 0
    /\ page' = [page EXCEPT
                   !.pending = @ - 1,
                   !.videoEnabled = IF page.mounted THEN FALSE ELSE @,
                   !.micEnabled = IF page.mounted THEN FALSE ELSE @]
    /\ PageFrame

\* toggleMic
ToggleMic ==
    /\ page.mounted
    /\ page' = [page EXCEPT
                   !.streams =
                       IF page.localStream = <<>> THEN @
                       ELSE [@ EXCEPT ![page.localStream[1]].audioEnabled =
                                          ~page.micEnabled],
                   !.micEnabled = ~page.micEnabled]
    /\ PageFrame

\* toggleVideo
ToggleVideo ==
    /\ page.mounted
    /\ page' = [page EXCEPT
                   !.streams =
                       IF page.localStream = <<>> THEN @
                       ELSE [@ EXCEPT ![page.localStream[1]].videoEnabled =
                                          ~page.videoEnabled],
                   !.videoEnabled = ~page.videoEnabled]
    /\ PageFrame

\* the session id in the route changes: the effect's cleanup runs with the
\* localStream of the render it was created in, then the effect runs again
\* and calls initializeMedia
IdChange ==
    /\ page.mounted
    /\ page.requested < MaxMediaRequests
    /\ page' = [page EXCEPT
                   !.streams = StopTracks(@, page.captured),
                   !.screens = StopTracks(@, page.capturedScreen),
                   !.captured = page.localStream,
                   !.capturedScreen = page.screenStream,
                   !.pending = @ + 1,
                   !.requested = @ + 1]
    /\ PageFrame

\* the page is left: the component unmounts and the effect's cleanup runs
Unmount ==
    /\ page.mounted
    /\ page' = [page EXCEPT
                   !.streams = StopTracks(@, page.captured),
                   !.screens = StopTracks(@, page.capturedScreen),
                   !.mounted = FALSE]
    /\ PageFrame

\* handleEndCall: stop the tracks of localStream, then navigate away
HandleEndCall ==
    /\ page.mounted
    /\ page' = [page EXCEPT
                   !.streams = StopTracks(StopTracks(@, page.localStream),
                                          page.captured),
                   !.screens = StopTracks(@, page.capturedScreen),
                   !.mounted = FALSE]
    /\ PageFrame

\* a stream as getDisplayMedia({ video: true, audio: true }) resolves it
NewScreen == [live |-> TRUE]

\* toggleScreenShare, up to the await: sharing is stopped, or a
\* getDisplayMedia request is made
ToggleScreenShare ==
    /\ page.mounted
    /\ IF page.isScreenSharing
       THEN page' = [page EXCEPT
                        !.screens = StopTracks(@, page.screenStream),
                        !.screenStream = <<>>,
                        !.isScreenSharing = FALSE]
       ELSE /\ page.displayRequested < MaxDisplayRequests
            /\ page' = [page EXCEPT
                            !.displayPending = @ + 1,
                            !.displayRequested = @ + 1]
    /\ PageFrame

\* toggleScreenShare, after the await: the request resolved with a stream,
\* which gets its 'ended' listener
DisplayGranted ==
    /\ page.displayPending > 0
    /\ page' = [page EXCEPT
                   !.displayPending = @ - 1,
                   !.screens = Append(@, NewScreen),
                   !.screenStream = IF page.mounted
                                    THEN <<Len(page.screens) + 1>> ELSE @,
                   !.isScreenSharing = IF page.mounted THEN TRUE ELSE @]
    /\ PageFrame

\* toggleScreenShare, the catch block: the request was rejected
DisplayDenied ==
    /\ page.displayPending > 0
    /\ page' = [page EXCEPT !.displayPending = @ - 1]
    /\ PageFrame

\* the user stops the capture of a stream in the browser's own controls: its
\* tracks end and the 'ended' listener of that stream runs
TrackEnded(i) ==
    /\ i \in 1..Len(page.screens)
    /\ page.screens[i].live
    /\ page' = [page EXCEPT
                   !.screens = StopTracks(@, <<i>>),
                   !.isScreenSharing = IF page.mounted THEN FALSE ELSE @,
                   !.screenStream = IF page.mounted THEN <<>> ELSE @]
    /\ PageFrame

NextPage ==
    \/ MediaGranted
    \/ MediaDenied
    \/ ToggleMic
    \/ ToggleVideo
    \/ IdChange
    \/ Unmount
    \/ HandleEndCall

SpecPage == Init /\ [][NextPage]_vars

\* the page is left while it holds, or is acquiring, camera and screen streams
NextLeave ==
    \/ MediaGranted
    \/ MediaDenied
    \/ IdChange
    \/ Unmount
    \/ HandleEndCall
    \/ ToggleScreenShare
    \/ DisplayGranted
    \/ DisplayDenied
    \/ \E i \in 1..MaxDisplayRequests : TrackEnded(i)

SpecLeave == Init /\ [][NextLeave]_vars

\* the page stays open: the screen-share button, getDisplayMedia and the
\* browser's controls, beside the camera and the microphone
NextShare ==
    \/ MediaGranted
    \/ MediaDenied
    \/ ToggleMic
    \/ ToggleVideo
    \/ ToggleScreenShare
    \/ DisplayGranted
    \/ DisplayDenied
    \/ \E i \in 1..MaxDisplayRequests : TrackEnded(i)

SpecShare == Init /\ [][NextShare]_vars

\* ------------------------------------------------------ the auth store
\* the token a login or registration answers with, and a persisted one
Jwt == <<"jwt">>
PersistedJwt == <<"jwt0">>

AuthFrame ==
    UNCHANGED <<db, now, resp, log, hs, commits, sessions, groups, profiles, page,
                sock>>

\* the user object of a response: an object the store has not held before
ResponseUser(a) == <<a.objects + 1>>

\* a request of the store is sent and awaited
Sent(a, kind) ==
    [a EXCEPT !.inflight[kind] = @ + 1, !.started = @ + 1]

\* login and register, up to the await
LoginSend ==
    /\ auth.started < MaxAuthRequests
    /\ auth' = Sent(auth, "login")
    /\ AuthFrame

RegisterSend ==
    /\ auth.started < MaxAuthRequests
    /\ auth' = Sent(auth, "register")
    /\ AuthFrame

\* login and register, after the await: the request was answered with
\* { user, token }
Authenticated(a, kind) ==
    [a EXCEPT !.inflight[kind] = @ - 1, !.header = Jwt,
              !.user = ResponseUser(a), !.token = Jwt,
              !.isAuthenticated = TRUE, !.isLoading = FALSE,
              !.objects = @ + 1]

LoginSucceeds ==
    /\ auth.inflight["login"] > 0
    /\ auth' = Authenticated(auth, "login")
    /\ AuthFrame

RegisterSucceeds ==
    /\ auth.inflight["register"] > 0
    /\ auth' = Authenticated(auth, "register")
    /\ AuthFrame

\* login, register and updateProfile, the catch block: a toast, the error
\* is thrown on, the store is left as it is
RequestFails(kind) ==
    /\ auth.inflight[kind] > 0
    /\ auth' = [auth EXCEPT !.inflight[kind] = @ - 1]
    /\ AuthFrame

\* the state logout and the catch block of checkAuth set
SignedOut(a) ==
    [a EXCEPT !.header = <<>>, !.user = <<>>, !.token = <<>>,
              !.isAuthenticated = FALSE, !.isLoading = FALSE]

\* logout
Logout ==
    /\ auth' = SignedOut(auth)
    /\ AuthFrame

\* updateUser: a merged copy of the current user, if there is one
UpdateUser ==
    /\ auth.started < MaxAuthRequests
    /\ auth' = IF auth.user = <<>> THEN [auth EXCEPT !.started = @ + 1]
               ELSE [auth EXCEPT !.user = ResponseUser(auth), !.objects = @ + 1,
                                 !.started = @ + 1]
    /\ AuthFrame

\* updateProfile, up to the await and after it
ProfileSend ==
    /\ auth.started < MaxAuthRequests
    /\ auth' = Sent(auth, "profile")
    /\ AuthFrame

ProfileSucceeds ==
    /\ auth.inflight["profile"] > 0
    /\ auth' = [auth EXCEPT !.inflight["profile"] = @ - 1,
                            !.user = ResponseUser(auth), !.objects = @ + 1]
    /\ AuthFrame

\* checkAuth, up to the await: without a token it only clears isLoading
CheckAuth ==
    /\ auth.started < MaxAuthRequests
    /\ auth' = IF auth.token = <<>>
               THEN [auth EXCEPT !.isLoading = FALSE, !.started = @ + 1]
               ELSE [Sent(auth, "me") EXCEPT !.header = auth.token]
    /\ AuthFrame

\* checkAuth, after the await: GET /auth/me was answered with the user
CheckAuthConfirmed(a) ==
    [a EXCEPT !.inflight["me"] = @ - 1, !.user = ResponseUser(a),
              !.isAuthenticated = TRUE, !.isLoading = FALSE,
              !.objects = @ + 1]

CheckAuthSucceeds ==
    /\ auth.inflight["me"] > 0
    /\ auth' = CheckAuthConfirmed(auth)
    /\ AuthFrame

\* checkAuth, the catch block
CheckAuthFails ==
    /\ auth.inflight["me"] > 0
    /\ auth' = [SignedOut(auth) EXCEPT !.inflight["me"] = @ - 1]
    /\ AuthFrame

AuthRequests == {"login", "register", "profile", "me"}

\* socket.close() for an optional socket of the provider
CloseSocketMutantLeaveOpen(sockets, held) == sockets

CloseSocket(sockets, held) ==
    IF held = <<>> THEN sockets ELSE [sockets EXCEPT ![held[1]] = "closed"]

\* the response interceptor on a 401: the persisted state is removed and the
\* location is set, which loads the application anew; the page that is
\* unloaded takes its sockets and its requests with it
Unauthorized(kind) ==
    /\ auth.inflight[kind] > 0
    /\ auth' = [StartedAuth(<<>>) EXCEPT !.started = auth.started,
                                         !.objects = auth.objects]
    /\ sock' = [MountedProvider EXCEPT
                   !.sockets = [i \in 1..Len(sock.sockets) |-> "closed"]]
    /\ UNCHANGED <<db, now, resp, log, hs, commits, sessions, groups, profiles,
                   page>>

\* ---------------------------------------------------- SocketProvider
\* the provider renders with a store whose isAuthenticated or user differs
\* from the values its first effect last ran with: the cleanup of that run
\* closes the socket it created, then the effect runs again and, for an
\* authenticated store with a user, creates a socket and sets it as state,
\* upon which the cleanup of the second effect closes the socket held before
ProviderRenders ==
    /\ sock.mounted
    /\ <<auth.isAuthenticated, auth.user>>
          # <<sock.seenAuthenticated, sock.seenUser>>
    /\ LET cleaned == CloseSocket(sock.sockets, sock.cleanup)
           seen == [sock EXCEPT !.seenAuthenticated = auth.isAuthenticated,
                                !.seenUser = auth.user]
       IN sock' =
             IF auth.isAuthenticated /\ auth.user # <<>>
             THEN [seen EXCEPT
                      !.sockets = Append(CloseSocket(cleaned, sock.socket), "open"),
                      !.socket = <<Len(sock.sockets) + 1>>,
                      !.cleanup = <<Len(sock.sockets) + 1>>]
             ELSE [seen EXCEPT !.sockets = cleaned, !.cleanup = <<>>]
    /\ UNCHANGED <<db, now, resp, log, hs, commits, sessions, groups, profiles,
                   page, auth>>

\* the provider unmounts: both cleanups run
ProviderUnmounts ==
    /\ sock.mounted
    /\ sock' = [sock EXCEPT
                   !.sockets = CloseSocket(CloseSocket(@, sock.cleanup), sock.socket),
                   !.cleanup = <<>>,
                   !.mounted = FALSE]
    /\ UNCHANGED <<db, now, resp, log, hs, commits, sessions, groups, profiles,
                   page, auth>>

InitAuth ==
    /\ db = [u \in {"u1"} |-> FreshUser]
    /\ now = StartTime
    /\ resp = Response(0, "none", NoStats, <<>>)
    /\ log = [u \in {"u1"} |-> NoHistory]
    /\ hs = [h \in Handlers |-> IdleHandler]
    /\ commits = 0
    /\ sessions = <<>>
    /\ groups = <<>>
    /\ profiles = [u \in {"u1"} |-> FreshProfile(u)]
    /\ page = MountedPage
    /\ auth \in {StartedAuth(<<>>), StartedAuth(PersistedJwt)}
    /\ sock = MountedProvider

NextAuth ==
    \/ LoginSend
    \/ LoginSucceeds
    \/ RegisterSend
    \/ RegisterSucceeds
    \/ \E kind \in {"login", "register", "profile"} : RequestFails(kind)
    \/ Logout
    \/ UpdateUser
    \/ ProfileSend
    \/ ProfileSucceeds
    \/ CheckAuth
    \/ CheckAuthSucceeds
    \/ CheckAuthFails
    \/ \E kind \in AuthRequests : Unauthorized(kind)
    \/ ProviderRenders
    \/ ProviderUnmounts

SpecAuth == InitAuth /\ [][NextAuth]_vars

\* ================================================================== claims

\* the integer a request value denotes, however it is encoded
Denotes(v) == IF v.kind = "num" THEN v.num ELSE StrToNum(v.str)

\* the value is an integer: a JSON number, or a string of decimal digits
\* with an optional sign
EncodesInteger(v) ==
    \/ v.kind = "num"
    \/ /\ v.kind = "str"
       /\ Len(Unsigned(v.str)) > 0
       /\ AllDigits(Unsigned(v.str))

\* a duration that is an integer >= 1
ValidDuration(v) == EncodesInteger(v) /\ Denotes(v) >= 1

\* a duration that is missing, non-numeric or less than 1
InvalidDuration(v) ==
    \/ v.kind = "missing"
    \/ ~EncodesInteger(v)
    \/ Denotes(v) < 1

\* C1: every successful POST /study-time with a duration that is an integer
\* >= 1, however encoded, adds exactly the duration to totalStudyTime and
\* exactly 1 to sessionsCompleted.
C1_ExactIncrements ==
    [][\A caller \in DOMAIN db, d \in Bodies, f \in Faults :
          (resp'.status = 200 /\ ValidDuration(d) /\ StudyTime(caller, d, f)) =>
             /\ db'[caller].totalStudyTime = db[caller].totalStudyTime + Denotes(d)
             /\ db'[caller].sessionsCompleted = db[caller].sessionsCompleted + 1]_vars

\* C2: the streak law in elapsed days: a successful call one day (24 to 48
\* hours) after lastStudyDate adds exactly 1 to streak, a call two or more
\* days after it sets streak to 1, a call less than a day after it leaves
\* streak unchanged.
C2_StreakLaw ==
    [][\A caller \in DOMAIN db, d \in Bodies, f \in Faults :
          (/\ resp'.status = 200
           /\ db[caller].lastStudyDate # <<>>
           /\ StudyTime(caller, d, f)) =>
             LET elapsed == now - db[caller].lastStudyDate[1]
             IN /\ (elapsed >= TicksPerDay /\ elapsed < 2 * TicksPerDay) =>
                      db'[caller].streak = db[caller].streak + 1
                /\ elapsed >= 2 * TicksPerDay => db'[caller].streak = 1
                /\ elapsed < TicksPerDay =>
                      db'[caller].streak = db[caller].streak]_vars

\* a call was made exactly one day after the previous one and the streak grew
C2_Witness ==
    /\ resp.status = 200
    /\ db["u1"].lastStudyDate = <<now>>
    /\ db["u1"].streak = 3

\* the calendar day an instant falls on
CalendarDay(t) == t \div TicksPerDay

\* C3: the streak follows the calendar-day gap between lastStudyDate and the
\* call, whatever the times of day: a gap of 1 calendar day adds exactly 1, a
\* larger gap resets the streak to 1, the same calendar day leaves it
\* unchanged.
C3_CalendarDayStreak ==
    [][\A caller \in DOMAIN db, d \in Bodies, f \in Faults :
          (/\ resp'.status = 200
           /\ db[caller].lastStudyDate # <<>>
           /\ StudyTime(caller, d, f)) =>
             LET gap == CalendarDay(now) - CalendarDay(db[caller].lastStudyDate[1])
             IN /\ gap = 1 => db'[caller].streak = db[caller].streak + 1
                /\ gap > 1 => db'[caller].streak = 1
                /\ gap = 0 => db'[caller].streak = db[caller].streak]_vars

\* C4: over sequential successful calls, each achievement identifier is
\* reported in newAchievements by at most one call, and by exactly the call
\* after which its threshold holds for the first time.
C4_ReportedOnce ==
    \A u \in DOMAIN db : \A id \in AchievementIds :
        log[u].reported[id] = IF id \in log[u].everMet THEN 1 ELSE 0

\* a call made after every threshold had been met and reported
C4_Witness ==
    /\ resp.status = 200
    /\ resp.newAchievements = <<>>
    /\ log["u1"].everMet = AchievementIds
    /\ db["u1"].sessionsCompleted = SessionMasterCount + 1

\* the identifiers of a list that satisfy a test, in the order of the list
RECURSIVE Filter(_, _)
Filter(list, keep) ==
    IF list = <<>> THEN <<>>
    ELSE (IF Head(list) \in keep THEN <<Head(list)>> ELSE <<>>)
         \o Filter(Tail(list), keep)

CheckOrder == <<"first-hour", "week-streak", "session-master">>

ScenarioUser ==
    [totalStudyTime |-> 55, sessionsCompleted |-> 9, streak |-> 6,
     achievements |-> <<>>, lastStudyDate |-> <<StartTime>>]

ScenarioOutcome ==
    StudyTimeOutcome(Request("u1", Num(10)), <<ScenarioUser>>,
                     StartTime + TicksPerDay, "none")

\* C5: the newAchievements of a successful call are, in the order first-hour,
\* week-streak, session-master, the identifiers whose threshold holds on the
\* statistics as updated by the call and that were not held before it; from
\* 55 minutes, 9 sessions, streak 6 one day earlier, a duration of 10 gives
\* 65, 10, 7 and all three identifiers.
C5_NewAchievements ==
    [][/\ \A caller \in DOMAIN db, d \in Bodies, f \in Faults :
             (resp'.status = 200 /\ StudyTime(caller, d, f)) =>
                resp'.newAchievements =
                   Filter(CheckOrder,
                          {id \in AchievementIds :
                              /\ ThresholdHolds(id, db'[caller])
                              /\ ~Includes(db[caller].achievements, id)})
       /\ ScenarioOutcome.resp.status = 200
       /\ ScenarioOutcome.resp.stats.totalStudyTime = 65
       /\ ScenarioOutcome.resp.stats.sessionsCompleted = 10
       /\ ScenarioOutcome.resp.stats.streak = 7
       /\ ScenarioOutcome.resp.newAchievements = CheckOrder]_vars

\* one call unlocked all three achievements
C5_Witness ==
    /\ resp.status = 200
    /\ resp.newAchievements = CheckOrder
    /\ db["u1"].achievements = CheckOrder

\* C6: after any sequence of sequential calls the stored achievements list
\* holds each identifier at most once.
C6_NoDuplicates ==
    \A u \in DOMAIN db :
        \A i, j \in 1..Len(db[u].achievements) :
            db[u].achievements[i] = db[u].achievements[j] => i = j

\* all three achievements are held and a call was made with the thresholds
\* of first-hour and session-master still satisfied
C6_Witness ==
    /\ Len(db["u1"].achievements) = 3
    /\ db["u1"].totalStudyTime > FirstHourMinutes
    /\ db["u1"].sessionsCompleted > SessionMasterCount
    /\ db["u1"].lastStudyDate = <<now>>

InvalidBodies == {d \in Bodies : InvalidDuration(d)}

\* C7: a request whose duration is missing, non-numeric or less than 1 is
\* answered 400 whoever the caller is and whatever the store would have
\* done, and the stored user records are left as they were.
C7_InvalidRejected ==
    [][\/ resp'.status = 400 /\ resp'.error = "none" /\ db' = db
       \/ \A caller \in UserIds, d \in InvalidBodies, f \in Faults :
             ~StudyTime(caller, d, f)]_vars

\* a request was rejected for a user who has statistics to lose
C7_Witness ==
    /\ resp.status = 400
    /\ db["u1"].sessionsCompleted > 0
    /\ db["u1"].achievements # <<>>

\* C8: when the caller's user record does not exist the outcome is NotFound
\* (404), distinct from the outcome of a storage failure, and nothing is
\* stored.
C8_NotFound ==
    [][\A caller \in UserIds \ DOMAIN db, d \in Bodies, f \in Faults :
          (ValidDuration(d) /\ f = "none" /\ StudyTime(caller, d, f)) =>
             /\ resp'.status = 404
             /\ db' = db]_vars

\* two handlers that served the same user, read the same stored document
\* before either saved, and both answered 200
Overlapped(g, h) ==
    /\ g # h
    /\ hs[g].pc = "idle" /\ hs[h].pc = "idle"
    /\ hs[g].resp.status = 200 /\ hs[h].resp.status = 200
    /\ hs[g].caller = hs[h].caller
    /\ hs[g].readAt = hs[h].readAt
    /\ commits = hs[g].readAt + 2

\* C9: when two concurrent calls for one user both load the user before
\* either saves and both succeed, the stored sessionsCompleted is 1 above
\* what they loaded, not 2, and totalStudyTime is what they loaded plus the
\* duration of only one of them.
C9_LostUpdate ==
    \A g, h \in Handlers :
        Overlapped(g, h) =>
            LET u == hs[g].caller
                before == hs[g].loaded[1]
            IN /\ hs[h].loaded[1] = before
               /\ db[u].sessionsCompleted = before.sessionsCompleted + 1
               /\ db[u].totalStudyTime \in
                     {before.totalStudyTime + Denotes(hs[g].duration),
                      before.totalStudyTime + Denotes(hs[h].duration)}
               /\ db[u].totalStudyTime <
                     before.totalStudyTime + Denotes(hs[g].duration)
                     + Denotes(hs[h].duration)

\* two overlapping calls of 6 and 30 minutes both succeeded
C9_Witness ==
    /\ Overlapped("h1", "h2")
    /\ hs["h1"].duration = Num(6)
    /\ hs["h2"].duration = Num(30)
    /\ db["u1"].sessionsCompleted = 1

\* the sum of f over a finite set
RECURSIVE SumOver(_, _)
SumOver(S, f) ==
    IF S = {} THEN 0
    ELSE LET x == CHOOSE y \in S : TRUE IN f[x] + SumOver(S \ {x}, f)

\* the duration of the caller's own participation entry in a session, 0
\* when the session has none for the caller or the entry has no duration
OwnDuration(s, id) ==
    LET own == {i \in 1..Len(s.participants) :
                   s.participants[i].user = id /\ s.participants[i].duration # <<>>}
    IN SumOver(own, [i \in own |-> s.participants[i].duration[1]])

Participated(s, id) == \E i \in 1..Len(s.participants) : s.participants[i].user = id

\* the week, starting on Sunday, an instant falls in
CalendarWeek(t) == (CalendarDay(t) + EpochWeekday) \div DaysPerWeek

\* the completed sessions the caller took part in that ended on today's
\* calendar day, and in the current calendar week
EndedToday(id) ==
    {i \in 1..Len(sessions) :
        /\ sessions[i].status = "completed" /\ Participated(sessions[i], id)
        /\ sessions[i].actualEnd # <<>>
        /\ CalendarDay(sessions[i].actualEnd[1]) = CalendarDay(now)}

EndedThisWeek(id) ==
    {i \in 1..Len(sessions) :
        /\ sessions[i].status = "completed" /\ Participated(sessions[i], id)
        /\ sessions[i].actualEnd # <<>>
        /\ CalendarWeek(sessions[i].actualEnd[1]) = CalendarWeek(now)}

\* C10: in a dashboard response todayProgress (weekProgress) is the sum,
\* over the completed sessions the caller took part in that ended today (in
\* the current week), of the duration of the caller's own entry; sessions of
\* 20 and 15 today and 30 yesterday in the same week give 35 and 65.
C10_Progress ==
    [][\A caller \in DOMAIN db :
          (resp'.status = 200 /\ Dashboard(caller, "none")) =>
             /\ resp'.todayProgress =
                   SumOver(EndedToday(caller),
                           [i \in EndedToday(caller) |-> OwnDuration(sessions[i], caller)])
             /\ resp'.weekProgress =
                   SumOver(EndedThisWeek(caller),
                           [i \in EndedThisWeek(caller) |-> OwnDuration(sessions[i], caller)])]_vars

\* the dashboard of a user with sessions of 20 and 15 minutes today, one of
\* them shared with another participant, and of 30 minutes yesterday
C10_Witness ==
    /\ resp.status = 200
    /\ resp.todayProgress = 35
    /\ resp.weekProgress = 65
    /\ \E i \in 1..Len(sessions) : Participated(sessions[i], "u2")

\* a session the user hosts or takes part in
Involved(s, id) == s.host = id \/ Participated(s, id)

\* the sessions of the user that are still to come at the request time
StillToCome(id) ==
    {i \in 1..Len(sessions) :
        /\ Involved(sessions[i], id)
        /\ sessions[i].scheduledStart >= now
        /\ sessions[i].status \in {"scheduled", "active"}}

\* the active groups the user is a member of
ActiveGroupsOf(id) ==
    {i \in 1..Len(groups) : id \in groups[i].members /\ groups[i].isActive}

NoMatches(id) ==
    /\ ActiveGroupsOf(id) = {}
    /\ StillToCome(id) = {}
    /\ EndedToday(id) = {}
    /\ EndedThisWeek(id) = {}

\* C11: for an existing user with no matching group and no matching session
\* the dashboard succeeds with empty recentGroups and upcomingSessions and
\* zero todayProgress and weekProgress; it is not an error.
C11_EmptyDashboard ==
    [][\A caller \in DOMAIN db :
          (NoMatches(caller) /\ Dashboard(caller, "none")) =>
             /\ resp'.status = 200
             /\ resp'.error = "none"
             /\ resp'.data # <<>>
             /\ resp'.data[1].recentGroups = <<>>
             /\ resp'.data[1].upcomingSessions = <<>>
             /\ resp'.data[1].todayProgress = 0
             /\ resp'.data[1].weekProgress = 0]_vars

\* an empty dashboard was served while the collections hold sessions of
\* another user only
C11_Witness ==
    /\ resp.status = 200
    /\ resp.data # <<>>
    /\ resp.data[1].recentGroups = <<>>
    /\ resp.data[1].upcomingSessions = <<>>
    /\ resp.data[1].todayProgress = 0
    /\ resp.data[1].weekProgress = 0
    /\ NoMatches("u1")
    /\ ~NoMatches("u2")

\* C12: when any one of the dashboard's sub-queries (user, recent groups,
\* upcoming sessions, today's sessions, this week's sessions) fails, the
\* response is an error and carries no snapshot at all, neither complete nor
\* with the failed part missing, empty or defaulted.
C12_NoPartialSnapshot ==
    [][\A caller \in UserIds, fault \in DashFaults \ {"none"} :
          Dashboard(caller, fault) =>
             /\ resp'.status = 500
             /\ resp'.error # "none"
             /\ resp'.data = <<>>]_vars

\* a sub-query failed for a request whose snapshot would have had content
C12_Witness ==
    /\ resp.status = 500
    /\ resp.error = "StorageError"
    /\ resp.data = <<>>
    /\ ActiveGroupsOf("u1") # {}
    /\ EndedToday("u1") # {}

\* the field names of a snapshot: top level, group entries, session entries
\* with the given name for the host, stats with the given name for the streak
SnapshotShape(d, hostKey, streakKey) ==
    /\ DOMAIN d = {"recentGroups", "upcomingSessions", "stats", "todayProgress",
                   "weekProgress", "weeklyGoal"}
    /\ d.weeklyGoal = 300
    /\ \A k \in 1..Len(d.recentGroups) :
          DOMAIN d.recentGroups[k] =
             {"id", "name", "subject", "memberCount", "lastActivity"}
    /\ \A k \in 1..Len(d.upcomingSessions) :
          DOMAIN d.upcomingSessions[k] =
             {"id", "title", "groupName", "time", hostKey}
    /\ DOMAIN d.stats =
          {"totalStudyTime", "sessionsCompleted", streakKey, "achievements"}

\* C13 as stated: every dashboard snapshot has the top-level fields
\* recentGroups, upcomingSessions, stats, todayProgress, weekProgress and
\* weeklyGoal = 300, group entries {id, name, subject, memberCount,
\* lastActivity}, session entries {id, title, groupName, time, hostName} and
\* stats {totalStudyTime, sessionsCompleted, streak, achievements}.
C13_FieldNamesAsStated ==
    resp.data # <<>> => SnapshotShape(resp.data[1], "hostName", "streak")

\* C13: every dashboard snapshot has the top-level fields recentGroups,
\* upcomingSessions, stats, todayProgress, weekProgress and weeklyGoal = 300,
\* group entries {id, name, subject, memberCount, lastActivity}, session
\* entries {id, title, groupName, time, host} and stats {totalStudyTime,
\* sessionsCompleted, currentStreak, achievements}.
C13_FieldNames ==
    resp.data # <<>> => SnapshotShape(resp.data[1], "host", "currentStreak")

\* a snapshot with entries in both lists
C13_Witness ==
    /\ resp.data # <<>>
    /\ Len(resp.data[1].recentGroups) > 0
    /\ Len(resp.data[1].upcomingSessions) > 0

\* C14: upcomingSessions holds at most 5 sessions, each one a distinct
\* session with the caller as host or participant, scheduledStart at or after
\* the request time and status scheduled or active; it is ascending by
\* scheduledStart and holds all matching sessions when there are at most 5,
\* else the 5 earliest: no matching session left out starts earlier than a
\* returned one.
C14_Upcoming ==
    [][\A caller \in DOMAIN db :
          (resp'.status = 200 /\ Dashboard(caller, "none")) =>
             LET up == resp'.data[1].upcomingSessions
                 returned == {up[k].id : k \in 1..Len(up)}
                 matches == StillToCome(caller)
             IN /\ Len(up) <= 5
                /\ returned \subseteq matches
                /\ Cardinality(returned) = Len(up)
                /\ Len(up) = IF Cardinality(matches) < 5
                             THEN Cardinality(matches) ELSE 5
                /\ \A k \in 1..Len(up) :
                      up[k].time = sessions[up[k].id].scheduledStart
                /\ \A j, k \in 1..Len(up) : j < k => up[j].time <= up[k].time
                /\ \A i \in matches \ returned : \A k \in 1..Len(up) :
                      sessions[i].scheduledStart >= up[k].time]_vars

\* five sessions with different start times were returned to a user of whom
\* more than five sessions match
C14_Witness ==
    /\ resp.status = 200
    /\ resp.data # <<>>
    /\ Len(resp.data[1].upcomingSessions) = 5
    /\ resp.data[1].upcomingSessions[1].time < resp.data[1].upcomingSessions[5].time
    /\ Cardinality(StillToCome("u1")) > 5
    /\ \A k \in 1..5 : resp.data[1].upcomingSessions[k].id \in StillToCome("u1")

\* C15: across the users router a user's studyStats and lastStudyDate are
\* changed by POST /study-time only, and only for its caller: PUT /profile
\* with any body, also one carrying studyStats, lastStudyDate or another key
\* outside the whitelist, GET /stats, GET /dashboard, GET /profile/:userId
\* and GET /search leave them as they were.
C15_StatsFrame ==
    [][\/ db' = db
       \/ \E caller \in DOMAIN db, duration \in RouterDurations, fault \in Faults :
             /\ StudyTime(caller, duration, fault)
             /\ \A u \in DOMAIN db \ {caller} : db'[u] = db[u]]_vars

\* profile updates whose bodies carried lastStudyDate and studyStats were
\* applied to a user who holds statistics and an achievement
C15_Witness ==
    /\ profiles["u1"].bio = <<"h", "i">>
    /\ profiles["u1"].studyPreferences = <<"p">>
    /\ profiles["u1"].firstName = <<"e", "&", "l", "t", ";">>
    /\ resp.status = 200
    /\ resp.data = <<profiles["u1"]>>
    /\ db["u1"].achievements # <<>>
    /\ db["u1"].lastStudyDate = <<now>>

\* C16: achievements only accumulate: over any sequence of operations of the
\* users router an identifier present in a user's achievements is present in
\* every later state, also after a recording that resets the streak.
C16_Monotone ==
    [][\A u \in DOMAIN db : \A i \in 1..Len(db[u].achievements) :
          Includes(db'[u].achievements, db[u].achievements[i])]_vars

\* week-streak is still held after a recording that reset the streak
C16_Witness ==
    /\ Includes(db["u1"].achievements, "week-streak")
    /\ db["u1"].streak = 1
    /\ db["u1"].lastStudyDate = <<now>>
    /\ resp.status = 200
    /\ resp.stats = db["u1"]

\* C17: from a fresh record, after successful calls the streak is the number
\* of consecutive calendar days, ending on the day of the last call, with at
\* least one call each; stated for the first two calls: the first leaves a
\* streak of 1, the second a streak of 2 when it falls on the calendar day
\* after the first and of 1 otherwise.
C17_ConsecutiveDays ==
    [][\A caller \in DOMAIN db, d \in Bodies, f \in Faults :
          (/\ resp'.status = 200
           /\ db[caller].sessionsCompleted <= 1
           /\ StudyTime(caller, d, f)) =>
             db'[caller].streak =
                IF /\ db[caller].sessionsCompleted = 1
                   /\ CalendarDay(now) = CalendarDay(db[caller].lastStudyDate[1]) + 1
                THEN 2 ELSE 1]_vars

C19_ConcurrentUnlockOnce ==
    \A u \in DOMAIN db : \A id \in AchievementIds :
        Cardinality({i \in 1..Len(db[u].achievements) :
                        db[u].achievements[i] = id}) <= 1

\* C20: in SessionDetail, whenever a local stream is held, its audio track
\* is enabled exactly when micEnabled and its video track exactly when
\* videoEnabled, under every interleaving of toggleMic and toggleVideo with
\* the completion of getUserMedia, also for a toggle made before the stream
\* arrived.
C20_TogglesMatchTracks ==
    (page.mounted /\ page.localStream # <<>>) =>
        /\ page.streams[page.localStream[1]].audioEnabled = page.micEnabled
        /\ page.streams[page.localStream[1]].videoEnabled = page.videoEnabled

\* C21: in the auth store every reachable state with isAuthenticated = true
\* has a token and a user, under every interleaving of login, register,
\* logout and a checkAuth in flight.
C21_AuthenticatedHasToken ==
    auth.isAuthenticated => (auth.token # <<>> /\ auth.user # <<>>)

\* the sockets of the provider that are open
OpenSockets == {i \in 1..Len(sock.sockets) : sock.sockets[i] = "open"}

\* C29: once SocketProvider has seen the store's isAuthenticated and user,
\* at most one socket it created is open, every socket it created before
\* the latest one is closed, and none is open when the store is not
\* authenticated.
C29_OneSocket ==
    /\ Cardinality(OpenSockets) <= 1
    /\ \A i \in 1..(Len(sock.sockets) - 1) : sock.sockets[i] = "closed"
    /\ <<auth.isAuthenticated, auth.user>>
          = <<sock.seenAuthenticated, sock.seenUser>>
       => (~auth.isAuthenticated => OpenSockets = {})

\* the provider replaced a socket for a changed user object, then saw a
\* logout
C29_Witness ==
    /\ Len(sock.sockets) >= 2
    /\ OpenSockets = {}
    /\ sock.mounted
    /\ ~sock.seenAuthenticated
    /\ ~auth.isAuthenticated


\* C22: a successful POST /study-time for a user whose lastStudyDate is
\* absent sets the streak to 1, whatever streak value is stored, and every
\* successful call leaves lastStudyDate equal to the time of the call.
C22_FirstCallStartsStreak ==
    [][\A caller \in UserIds, d \in Bodies :
          (resp'.status = 200 /\ StudyTime(caller, d, "none")) =>
             /\ db'[caller].lastStudyDate = <<now>>
             /\ db[caller].lastStudyDate = <<>> =>
                   /\ db'[caller].streak = 1
                   /\ \A s \in 0..WeekStreakDays :
                         NextStreak([db[caller] EXCEPT !.streak = s], now) = 1]_vars

\* the first call of a user has been answered
C22_Witness ==
    /\ resp.status = 200
    /\ db["u1"].sessionsCompleted = 1
    /\ db["u1"].streak = 1
    /\ db["u1"].lastStudyDate = <<now>>

\* the bodies that pass express-validator
PassingBodies == {d \in Bodies : ValidationPasses([duration |-> d])}

\* C24: when loading or saving the user record fails, the call is answered
\* with the failure, no save is applied, and the stored records are exactly
\* as they were before the call.
C24_FailureLeavesRecord ==
    [][\/ resp'.status = 500 /\ db' = db /\ commits' = commits /\ log' = log
       \/ \A caller \in UserIds, d \in PassingBodies, f \in {"load", "save"} :
             ~StudyTime(caller, d, f)]_vars

\* a storage failure was reported to a user who had statistics, a streak and
\* an earlier study date stored
C24_Witness ==
    /\ resp.status = 500
    /\ resp.error = "StorageError"
    /\ db["u1"].sessionsCompleted > 1
    /\ db["u1"].streak > 1
    /\ db["u1"].lastStudyDate # <<now>>

\* C26: in every stored record reached from a fresh user, first-hour is held
\* iff totalStudyTime >= 60, session-master is held iff sessionsCompleted >=
\* 10, and a streak of 7 or more implies that week-streak is held.
C26_AchievementsMatchCounters ==
    \A u \in DOMAIN db :
        /\ Includes(db[u].achievements, "first-hour")
              <=> db[u].totalStudyTime >= FirstHourMinutes
        /\ Includes(db[u].achievements, "session-master")
              <=> db[u].sessionsCompleted >= SessionMasterCount
        /\ db[u].streak >= WeekStreakDays
              => Includes(db[u].achievements, "week-streak")

\* the hour has been passed and first-hour is held, while the tenth session
\* and the seventh day are still to come
C26_Witness ==
    /\ db["u1"].totalStudyTime >= FirstHourMinutes
    /\ db["u1"].achievements = <<"first-hour">>
    /\ db["u1"].sessionsCompleted < SessionMasterCount
    /\ db["u1"].streak < WeekStreakDays


\* midnight of the day of the request, the index of its weekday (0 is
\* Sunday) and midnight of the day the week of the request starts on
MidnightToday == CalendarDay(now) * TicksPerDay

WeekdayIndex == (CalendarDay(now) + EpochWeekday) % DaysPerWeek

WeekStartDay == MidnightToday - WeekdayIndex * TicksPerDay

\* the completed sessions the caller took part in that ended in [lo, hi)
EndedWithin(id, lo, hi) ==
    {i \in 1..Len(sessions) :
        /\ sessions[i].status = "completed" /\ Participated(sessions[i], id)
        /\ sessions[i].actualEnd # <<>>
        /\ lo <= sessions[i].actualEnd[1]
        /\ sessions[i].actualEnd[1] < hi}

DurationsOf(S, id) == SumOver(S, [i \in S |-> OwnDuration(sessions[i], id)])

\* C23: a completed session counts toward todayProgress iff midnight-today
\* <= actualEnd < midnight-tomorrow, and toward weekProgress iff weekStart
\* <= actualEnd < weekStart + 7 days, weekStart being midnight of today
\* minus today's weekday index in days.
C23_HalfOpenWindows ==
    [][\A caller \in DOMAIN db :
          (resp'.status = 200 /\ Dashboard(caller, "none")) =>
             /\ resp'.todayProgress =
                   DurationsOf(EndedWithin(caller, MidnightToday,
                                           MidnightToday + TicksPerDay), caller)
             /\ resp'.weekProgress =
                   DurationsOf(EndedWithin(caller, WeekStartDay,
                                           WeekStartDay + DaysPerWeek * TicksPerDay),
                               caller)]_vars

\* a dashboard over a session that ended exactly at midnight today and one
\* that ended exactly at midnight tomorrow: only the first is counted
C23_Witness ==
    /\ resp.status = 200
    /\ sessions[1].actualEnd = <<MidnightToday>>
    /\ sessions[2].actualEnd = <<MidnightToday + TicksPerDay>>
    /\ resp.todayProgress = OwnDuration(sessions[1], "u1")
    /\ resp.todayProgress > 0

\* what GET /dashboard would compute for a user from the session documents
ProgressOf(u) ==
    LET data == DashboardData(db[u], u)
    IN <<data.todayProgress, data.weekProgress>>

\* C25: a successful POST /study-time leaves every other user's record,
\* the caller's profile fields and all group and session documents as they
\* were, so the dashboard's todayProgress and weekProgress of every user are
\* the same before and after the call.
C25_StudyTimeFrame ==
    [][\A caller \in UserIds, d \in FrameDurations :
          (resp'.status = 200 /\ resp'.data = <<>> /\ StudyTime(caller, d, "none")) =>
             /\ DOMAIN db' = DOMAIN db
             /\ \A u \in DOMAIN db \ {caller} : db'[u] = db[u]
             /\ profiles' = profiles
             /\ sessions' = sessions
             /\ groups' = groups
             /\ \A u \in DOMAIN db : ProgressOf(u)' = ProgressOf(u)]_vars

\* both users have recorded study time, each with its own counters, and the
\* dashboard of each has progress from the session documents
C25_Witness ==
    /\ resp.status = 200
    /\ resp.data = <<>>
    /\ db["u1"].sessionsCompleted = 2
    /\ db["u2"].sessionsCompleted = 1
    /\ ProgressOf("u1")[1] > 0
    /\ ProgressOf("u2")[1] > 0

\* C27: in every dashboard response todayProgress <= weekProgress, on
\* whichever weekday the request is made.
C27_TodayWithinWeek ==
    (resp.status = 200 /\ resp.data # <<>>) =>
        resp.todayProgress <= resp.weekProgress

\* a dashboard requested on a Saturday, the last day of the week, over a
\* session that ended on it and one earlier in the week
C27_Witness ==
    /\ resp.status = 200
    /\ resp.data # <<>>
    /\ WeekdayIndex = DaysPerWeek - 1
    /\ resp.todayProgress > 0
    /\ resp.weekProgress > resp.todayProgress


\* the streams of the page whose tracks are live
LiveStreams == {i \in 1..Len(page.streams) : page.streams[i].live}

LiveScreens == {i \in 1..Len(page.screens) : page.screens[i].live}

\* C28: when the SessionDetail page is left, through End Call or through
\* the component unmounting, every camera/microphone stream and every
\* screen-share stream the page has acquired has been stopped.
C28_LeavingStopsTracks ==
    [][(page.mounted /\ ~page'.mounted) =>
          /\ \A i \in 1..Len(page'.streams) : ~page'.streams[i].live
          /\ \A i \in 1..Len(page'.screens) : ~page'.screens[i].live]_vars

\* the screen-share stream the state refers to, as a set
HeldScreen == {page.screenStream[i] : i \in 1..Len(page.screenStream)}

\* C30: while the page is open, isScreenSharing holds iff a screenStream is
\* held, and the live screen-capture streams the page has acquired are
\* exactly the held one when isScreenSharing holds and none when it does not.
C30_ScreenStateMatchesStreams ==
    page.mounted =>
        /\ page.isScreenSharing <=> page.screenStream # <<>>
        /\ LiveScreens = IF page.isScreenSharing THEN HeldScreen ELSE {}

====
